---- MODULE Spec2Model ----
(***************************************************************************)
(* Model of dbapi2abc: the abstract base classes Connection and Cursor     *)
(* (dbapi2-abc/dbapi.py) and the concrete subclasses that the repository   *)
(* derives from them (tests/test_dbapi.py).                                *)
(*                                                                         *)
(* A subclass is modelled by the set of member names its body defines.     *)
(* As in the repository's TestConnection and TestCursor, every member a    *)
(* subclass defines is a plain method whose body is `pass`.  A member the  *)
(* subclass does not define is inherited from the abstract base class.     *)
(* Instantiation goes through ABC's check of __abstractmethods__.          *)
(*                                                                         *)
(* The objects of the repository keep no data of their own apart from the  *)
(* instance attribute that an assignment `cur.arraysize = n` creates.  The *)
(* fields closed / executed are history fields: they record which calls    *)
(* have already returned on an object, so that properties about "after     *)
(* close()" or "before any execute()" can be stated.                       *)
(***************************************************************************)
EXTENDS Integers, FiniteSets, Sequences, TLC

\* Number of Cursor objects the model instantiates.
NumCursors == 1
\* Largest value written to arraysize / passed as fetchmany's size.
MaxSize == 2

CursorIds == 1..NumCursors
Sizes == 1..MaxSize

\* Outcomes of a call or attribute access.
RetNone == "None"                              \* returned None (body is `pass`)
RetInstance == "Instance"                      \* constructor returned an object
RetTrue == "True"
RetFalse == "False"
RetMethod == "BoundMethod"                     \* attribute access gave a bound method
RetInt == "int"                                \* attribute access gave an integer
RaisedNotImplemented == "NotImplementedError"  \* the unsupported-operation error
RaisedTypeError == "TypeError"                 \* ABC refused to instantiate
\* PEP 249 `Error` (or subclass): what the docstrings require for use after
\* close() and for a fetch without a result set.
RaisedError == "Error"

\* Members decorated with @abstractmethod in class Connection.
ConnectionAbstractMethods == {"close", "commit", "cursor"}

\* Class Cursor with the @abstractmethod decorator left off fetchall.
CursorAbstractMethods_NoFetchall ==
    {"description", "rowcount", "close", "execute", "executemany",
     "fetchone", "fetchmany", "arraysize"}

\* Members decorated with @abstractmethod in class Cursor.
CursorAbstractMethods ==
    {"description", "rowcount", "close", "execute", "executemany",
     "fetchone", "fetchmany", "fetchall", "arraysize"}

\* Names a Connection subclass body may define (the ones TestConnection defines).
ConnectionBodyNames == {"close", "commit", "rollback", "cursor"}

\* Names a Cursor subclass body may define (the ones TestCursor defines).
CursorBodyNames ==
    {"arraysize", "description", "rowcount", "close", "execute",
     "executemany", "fetchall", "fetchmany", "fetchone"}

\* Methods callable on a Connection / Cursor object.
ConnectionOps == {"close", "commit", "rollback", "cursor"}
CursorOps ==
    {"callproc", "close", "execute", "executemany", "fetchone", "fetchmany",
     "fetchall", "nextset", "setinputsizes", "setoutputsize"}
FetchOps == {"fetchone", "fetchmany", "fetchall"}
ExecuteOps == {"execute", "executemany"}

\* Class Connection with rollback's body left as `pass`.
ConnectionBase_RollbackPass(name) == RetNone

\* Body of a method of class Connection itself.
ConnectionBase(name) ==
    IF name = "rollback" THEN RaisedNotImplemented ELSE RetNone

\* Class Cursor with nextset's body left as `pass`.
CursorBase_NextsetPass(name) ==
    IF name = "callproc" THEN RaisedNotImplemented ELSE RetNone

\* Body of a method of class Cursor itself.
CursorBase(name) ==
    IF name \in {"callproc", "nextset"} THEN RaisedNotImplemented ELSE RetNone

\* Body of a method defined by a subclass: `pass`.
SubclassBody(name) == RetNone

\* Attribute lookup on the class: the subclass's own definition wins over
\* the inherited one.
ConnectionDispatch(defs, name) ==
    IF name \in defs THEN SubclassBody(name) ELSE ConnectionBase(name)

CursorDispatch(defs, name) ==
    IF name \in defs THEN SubclassBody(name) ELSE CursorBase(name)

\* ABCMeta: the abstract names a subclass leaves undefined.
Unimplemented(abstract, defs) == abstract \ defs

\* object.__new__ on a class whose metaclass is ABCMeta.
Construct(abstract, defs) ==
    IF Unimplemented(abstract, defs) = {} THEN RetInstance ELSE RaisedTypeError

\* Classes an instance of a subclass of `base` is an instance of.
Mro(base) == {"subclass", base, "ABC", "object"}

IsInstance(base, cls) == IF cls \in Mro(base) THEN RetTrue ELSE RetFalse

VARIABLES
    connDefs,   \* member names the Connection subclass defines
    curDefs,    \* member names the Cursor subclass defines
    conn,       \* the Connection object
    cur,        \* the Cursor objects
    last        \* the most recent call and its outcome

vars == <<connDefs, curDefs, conn, cur, last>>

NoCall == [kind |-> "none", id |-> 0, op |-> "none", arg |-> 0,
           out |-> RetNone, val |-> 0]

Call(kind, id, op, arg, out, val) ==
    [kind |-> kind, id |-> id, op |-> op, arg |-> arg, out |-> out, val |-> val]

FreshCursor == [exists |-> FALSE, executed |-> FALSE, closed |-> FALSE,
                arraysize |-> 0]

TypeOK ==
    /\ connDefs \subseteq ConnectionBodyNames
    /\ curDefs \subseteq CursorBodyNames
    /\ conn \in [exists : BOOLEAN, closed : BOOLEAN]
    /\ cur \in [CursorIds -> [exists : BOOLEAN, executed : BOOLEAN,
                              closed : BOOLEAN, arraysize : 0..MaxSize]]

Init ==
    /\ connDefs \in SUBSET ConnectionBodyNames
    /\ curDefs \in SUBSET CursorBodyNames
    /\ conn = [exists |-> FALSE, closed |-> FALSE]
    /\ cur = [i \in CursorIds |-> FreshCursor]
    /\ last = NoCall

\* db = TestConnection()
NewConnection ==
    /\ ~conn.exists
    /\ LET out == Construct(ConnectionAbstractMethods, connDefs) IN
        /\ conn' = [conn EXCEPT !.exists = (out = RetInstance)]
        /\ last' = Call("conn", 0, "__init__", 0, out, 0)
    /\ UNCHANGED <<connDefs, curDefs, cur>>

\* db = TestCursor()
NewCursor(i) ==
    /\ ~cur[i].exists
    /\ LET out == Construct(CursorAbstractMethods, curDefs) IN
        /\ cur' = [cur EXCEPT ![i].exists = (out = RetInstance)]
        /\ last' = Call("cur", i, "__init__", 0, out, 0)
    /\ UNCHANGED <<connDefs, curDefs, conn>>

\* isinstance(db, Connection) / isinstance(db, Cursor) / the cross checks
ConnIsInstance(cls) ==
    /\ conn.exists
    /\ last' = Call("conn", 0, "isinstance:" \o cls, 0,
                    IsInstance("Connection", cls), 0)
    /\ UNCHANGED <<connDefs, curDefs, conn, cur>>

CurIsInstance(i, cls) ==
    /\ cur[i].exists
    /\ last' = Call("cur", i, "isinstance:" \o cls, 0,
                    IsInstance("Cursor", cls), 0)
    /\ UNCHANGED <<connDefs, curDefs, conn, cur>>

\* conn.close(), conn.commit(), conn.rollback(), conn.cursor()
ConnCall(op) ==
    /\ conn.exists
    /\ LET out == ConnectionDispatch(connDefs, op) IN
        /\ conn' = [conn EXCEPT
                      !.closed = @ \/ (op = "close" /\ out = RetNone)]
        /\ last' = Call("conn", 0, op, 0, out, 0)
    /\ UNCHANGED <<connDefs, curDefs, cur>>

\* cur.<op>(...); arg is fetchmany's size, 0 when it is omitted
CurCall(i, op, arg) ==
    /\ cur[i].exists
    /\ arg # 0 => op = "fetchmany"
    /\ LET out == CursorDispatch(curDefs, op) IN
        /\ cur' = [cur EXCEPT
                     ![i].closed = @ \/ (op = "close" /\ out = RetNone),
                     ![i].executed = @ \/ (op \in ExecuteOps /\ out = RetNone)]
        /\ last' = Call("cur", i, op, arg, out, 0)
    /\ UNCHANGED <<connDefs, curDefs, conn>>

\* cur.arraysize = n : the class attribute is a plain function, so the
\* assignment creates an instance attribute that shadows it
SetArraysize(i, n) ==
    /\ cur[i].exists
    /\ cur' = [cur EXCEPT ![i].arraysize = n]
    /\ last' = Call("cur", i, "arraysize=", n, RetNone, 0)
    /\ UNCHANGED <<connDefs, curDefs, conn>>

\* cur.arraysize : the instance attribute if there is one, else the method
GetArraysize(i) ==
    /\ cur[i].exists
    /\ last' = IF cur[i].arraysize # 0
               THEN Call("cur", i, "arraysize", 0, RetInt, cur[i].arraysize)
               ELSE Call("cur", i, "arraysize", 0, RetMethod, 0)
    /\ UNCHANGED <<connDefs, curDefs, conn, cur>>

Next ==
    \/ NewConnection
    \/ \E i \in CursorIds : NewCursor(i)
    \/ \E cls \in {"Connection", "Cursor"} : ConnIsInstance(cls)
    \/ \E i \in CursorIds, cls \in {"Connection", "Cursor"} : CurIsInstance(i, cls)
    \/ \E op \in ConnectionOps : ConnCall(op)
    \/ \E i \in CursorIds, op \in CursorOps, arg \in {0} \cup Sizes : CurCall(i, op, arg)
    \/ \E i \in CursorIds, n \in Sizes : SetArraysize(i, n)
    \/ \E i \in CursorIds : GetArraysize(i)

Spec == Init /\ [][Next]_vars

(***************************************************************************)
(* Properties                                                              *)
(***************************************************************************)

\* The nine members the Cursor contract lists as mandatory.
MandatoryCursorMembers ==
    {"description", "rowcount", "arraysize", "close", "execute",
     "executemany", "fetchone", "fetchmany", "fetchall"}

\* The three members the Connection contract lists as mandatory.
MandatoryConnectionMembers == {"close", "commit", "cursor"}

\* C1: once close() has returned on a Connection, every later commit(),
\* rollback() or cursor() call on it fails with the misuse-after-close error
\* (PEP 249 Error), so cursor() on a closed Connection yields no Cursor.
C1_ClosedConnectionCallsFail ==
    (last.kind = "conn" /\ conn.closed
        /\ last.op \in {"commit", "rollback", "cursor"})
    => last.out = RaisedError

\* C2: fetchone, fetchmany or fetchall on a Cursor on which no execute or
\* executemany has run yet fails with the precondition-violation error
\* (PEP 249 Error); it returns neither a row, nor None, nor a sequence.
C2_FetchBeforeExecuteFails ==
    (last.kind = "cur" /\ last.op \in FetchOps /\ ~cur[last.id].executed)
    => last.out = RaisedError

C6_ArraysizeDefaultsToOne ==
    (last.kind = "cur" /\ last.op = "arraysize" /\ cur[last.id].arraysize = 0)
    => (last.out = RetInt /\ last.val = 1)

\* C8: every execute, executemany, fetchone, fetchmany or fetchall invoked on
\* a Cursor on which close() has returned fails.
C8_ClosedCursorCallsFail ==
    (last.kind = "cur" /\ last.op \in (ExecuteOps \cup FetchOps)
        /\ cur[last.id].closed)
    => last.out \in {RaisedError, RaisedNotImplemented, RaisedTypeError}

\* C10: a no-argument instantiation of a Connection subclass succeeds exactly
\* when the subclass defines close, commit and cursor, and of a Cursor
\* subclass exactly when it defines the nine mandatory members; otherwise it
\* is refused and no object exists.  An instance passes the isinstance check
\* against its base class.  None of the optional operations has to be defined.
C10_StructuralConformance ==
    /\ (last.kind = "conn" /\ last.op = "__init__")
       => /\ (last.out = RetInstance) = (MandatoryConnectionMembers \subseteq connDefs)
          /\ conn.exists = (last.out = RetInstance)
          /\ last.out \in {RetInstance, RaisedTypeError}
    /\ (last.kind = "cur" /\ last.op = "__init__")
       => /\ (last.out = RetInstance) = (MandatoryCursorMembers \subseteq curDefs)
          /\ cur[last.id].exists = (last.out = RetInstance)
          /\ last.out \in {RetInstance, RaisedTypeError}
    /\ conn.exists => MandatoryConnectionMembers \subseteq connDefs
    /\ \A i \in CursorIds : cur[i].exists => MandatoryCursorMembers \subseteq curDefs
    /\ (last.kind = "conn" /\ last.op = "isinstance:Connection") => last.out = RetTrue
    /\ (last.kind = "cur" /\ last.op = "isinstance:Cursor") => last.out = RetTrue

\* C10 witness: a Cursor instance of a class that defines none of the
\* optional operations passed isinstance(_, Cursor), next to a Connection
\* instance of a class that does not define rollback.
C10_Witness ==
    /\ last.kind = "cur" /\ last.op = "isinstance:Cursor" /\ last.out = RetTrue
    /\ cur[last.id].exists
    /\ curDefs \cap {"callproc", "nextset", "setinputsizes", "setoutputsize"} = {}
    /\ conn.exists /\ "rollback" \notin connDefs

\* A Cursor object on which neither execute/executemany nor close has returned.
IsFresh(i) == cur[i].exists /\ ~cur[i].executed /\ ~cur[i].closed

====
